---- MODULE Spec2Model ----
(***************************************************************************)
(* protein_correlation_clustering_go_count (src/protein_analysis.py).      *)
(*                                                                         *)
(* One call of the function is a straight-line pipeline: fetch one         *)
(* Swiss-Prot record per column, correlate, score the candidate cluster    *)
(* counts, refit at the best one, aggregate GO terms per cluster, compute  *)
(* the cluster-specific GO terms and draw two figures.  pc is the position *)
(* of the call; an exception anywhere ends it (pc = "error").              *)
(*                                                                         *)
(* Proteins are named by their column position 1..N.  The measurement      *)
(* values do not appear: what the library calls return for them (the       *)
(* labels of a fit, a Davies-Bouldin score) is an input of the step that   *)
(* makes the call, drawn from what the library's contract allows.          *)
(***************************************************************************)
EXTENDS Integers, Sequences, FiniteSets, TLC

\* ---------------------------------------------------------------- bounds
MaxN == 7          \* most protein columns of an input table (Spec)
MaxScore == 1      \* Davies-Bouldin scores are drawn from 0..MaxScore
MaxGo == 2         \* GO cross-references the remote database knows about
AggN == 3          \* protein columns of the aggregation runs (SpecAgg)

\* ------------------------------------------------------ program constants
max_n_clusters == 6

VARIABLES
    N,                            \* len(protein_df.columns)
    swissprot,                    \* remote data: protein -> cross_references
    pc, err,                      \* position of the call; stage that raised
    i, handle,                    \* fetch loop: next column, open handle (0: none)
    fetchLog,                     \* network/parse events so far, in order
    failed,                       \* proteins whose lookup or parse raised
    record_protein_gos,
    correlations,                 \* number of rows of the matrix, -1 before line 62
    scores, j, ac,                \* j: position in tentative_clusters; ac: ac.labels_
    best_n_clusters,
    cluster_labels, cluster_proteins, protein_gos, cluster_gos,
    cluster_specific_gos, cluster_specific_protein_gos,
    hist,                         \* per subplot: protein -> number of GOs plotted
    figures                       \* plt.show() calls made

vars == <<N, swissprot, pc, err, i, handle, fetchLog, failed, record_protein_gos,
          correlations, scores, j, ac, best_n_clusters, cluster_labels,
          cluster_proteins, protein_gos, cluster_gos, cluster_specific_gos,
          cluster_specific_protein_gos, hist, figures>>

fetchVars == <<i, handle, fetchLog, failed, record_protein_gos>>
clusterVars == <<correlations, scores, j, ac, best_n_clusters>>
aggVars == <<cluster_labels, cluster_proteins, protein_gos, cluster_gos>>
specificVars == <<cluster_specific_gos, cluster_specific_protein_gos>>
plotVars == <<hist, figures>>

Empty == [x \in {} |-> {}]

\* ------------------------------------------------------------ remote data
\* A cross reference is a tuple (database, id, description, evidence).
GoRef(g) == <<"GO", "GO:" \o ToString(g), "term" \o ToString(g), "IEA">>
OtherRef == <<"EMBL", "X56734", "CAA40058.1", "-">>
GoRefs == {GoRef(g) : g \in 1..MaxGo}

\* "GO" in x_ref: some field of the tuple equals "GO"
IsGO(x_ref) == \E f \in 1..Len(x_ref) : x_ref[f] = "GO"

\* set([x_ref for x_ref in x_refs if "GO" in x_ref])
GoCrossReferences(x_refs) == {x_ref \in x_refs : IsGO(x_ref)}

\* {go[2] for go in record_protein_gos[protein]}: the description field
ProteinGos(record) == {go[3] : go \in record}

Proteins(n) == [p \in 1..n |-> p]

\* -------------------------------------------------------------- clustering
\* np.linspace(2, max_n_clusters, max_n_clusters-1).astype(int)
tentative_clusters ==
    [t \in 1..(max_n_clusters - 1) |->
        2 + ((t - 1) * (max_n_clusters - 2)) \div (max_n_clusters - 2)]

\* np.argmin: position of the first minimum
RECURSIVE ArgMinFrom(_, _, _)
ArgMinFrom(s, t, best) ==
    IF t > Len(s) THEN best
    ELSE ArgMinFrom(s, t + 1, IF s[t] < s[best] THEN t ELSE best)

ArgMin(s) == ArgMinFrom(s, 2, 1)

BestNClusters(s) == tentative_clusters[ArgMin(s)]

\* AgglomerativeClustering(n_clusters=k).fit on n rows: labels_ names k
\* non-empty clusters 0..k-1.  The dendrograms considered keep the leaves in
\* column order: a cut is a set of k-1 gaps between neighbouring columns, and
\* the clusters are numbered cyclically from the first or the second one.
ACLabels(n, k) ==
    {[p \in 1..n |-> (Cardinality({g \in cut : g < p}) + first) % k] :
        cut \in {c \in SUBSET (1..(n - 1)) : Cardinality(c) = k - 1},
        first \in 0..1}

\* every labelling of n rows with k non-empty clusters 0..k-1
AllLabels(n, k) ==
    {f \in [1..n -> 0..(k - 1)] : \A c \in 0..(k - 1) : \E p \in 1..n : f[p] = c}

NLabels(labels) == Cardinality({labels[p] : p \in DOMAIN labels})

\* ------------------------------------------------------------- aggregation
RECURSIVE SortedSeq(_)
SortedSeq(S) ==
    IF S = {} THEN <<>>
    ELSE LET m == CHOOSE x \in S : \A y \in S : x <= y
         IN  <<m>> \o SortedSeq(S \ {m})

\* np.unique(ac.labels_)
Unique(labels) == SortedSeq({labels[p] : p \in DOMAIN labels})

\* mutant: the mask compares with <= instead of ==
ClusterMembers_UpTo(proteins, labels, cluster) ==
    SelectSeq(proteins, LAMBDA p : labels[p] <= cluster)

\* proteins[ac.labels_ == cluster]
ClusterMembers(proteins, labels, cluster) ==
    SelectSeq(proteins, LAMBDA p : labels[p] = cluster)

\* for protein in members: acc = acc.union(protein_gos[protein])
RECURSIVE UnionOver(_, _, _)
UnionOver(acc, members, pgos) ==
    IF members = <<>> THEN acc
    ELSE UnionOver(acc \cup pgos[Head(members)], Tail(members), pgos)

\* mutant: intersection in place of difference
RECURSIVE DifferenceOver_Intersect(_, _, _)
DifferenceOver_Intersect(acc, members, pgos) ==
    IF members = <<>> THEN acc
    ELSE DifferenceOver_Intersect(acc \cap pgos[Head(members)], Tail(members), pgos)

\* for protein in members: acc = acc.difference(protein_gos[protein])
RECURSIVE DifferenceOver(_, _, _)
DifferenceOver(acc, members, pgos) ==
    IF members = <<>> THEN acc
    ELSE DifferenceOver(acc \ pgos[Head(members)], Tail(members), pgos)

\* mutant: the test cluster != other_cluster is missing
RECURSIVE SubtractOthers_NoGuard(_, _, _, _, _)
SubtractOthers_NoGuard(acc, cluster, others, cps, pgos) ==
    IF others = <<>> THEN acc
    ELSE SubtractOthers_NoGuard(
            acc \ UNION {pgos[p] : p \in {cps[Head(others)][x] : x \in DOMAIN cps[Head(others)]}},
            cluster, Tail(others), cps, pgos)

\* mutant: the loop over the other clusters stops after the first of them
RECURSIVE SubtractOthers_FirstOther(_, _, _, _, _)
SubtractOthers_FirstOther(acc, cluster, others, cps, pgos) ==
    IF others = <<>> THEN acc
    ELSE IF cluster # Head(others)
         THEN DifferenceOver(acc, cps[Head(others)], pgos)
         ELSE SubtractOthers_FirstOther(acc, cluster, Tail(others), cps, pgos)

\* for other_cluster in cluster_labels: if cluster != other_cluster: ...
RECURSIVE SubtractOthers(_, _, _, _, _)
SubtractOthers(acc, cluster, others, cps, pgos) ==
    IF others = <<>> THEN acc
    ELSE SubtractOthers(
            IF cluster # Head(others)
            THEN DifferenceOver(acc, cps[Head(others)], pgos)
            ELSE acc,
            cluster, Tail(others), cps, pgos)

ClusterSpecific(cluster, labels, cps, pgos) ==
    SubtractOthers(UnionOver({}, cps[cluster], pgos), cluster, labels, cps, pgos)

\* mutant: union in place of intersection
ProteinSpecific_Union(specific, gos) == specific \cup gos

\* cluster_specific_gos[cluster].intersection(protein_gos[protein])
ProteinSpecific(specific, gos) == specific \cap gos

Range(s) == {s[x] : x \in DOMAIN s}

\* ------------------------------------------------------------------- Init
InitCommon ==
    /\ pc = "fetch" /\ err = "none"
    /\ i = 1 /\ handle = 0 /\ fetchLog = <<>> /\ failed = {}
    /\ record_protein_gos = Empty
    /\ correlations = -1 /\ scores = <<>> /\ j = 0 /\ ac = <<>>
    /\ best_n_clusters = 0
    /\ cluster_labels = <<>> /\ cluster_proteins = Empty
    /\ protein_gos = Empty /\ cluster_gos = Empty
    /\ cluster_specific_gos = Empty /\ cluster_specific_protein_gos = Empty
    /\ hist = Empty /\ figures = 0

\* The remote database of the pipeline runs: protein p carries the first
\* p % (MaxGo + 1) GO references and one non-GO reference.
Database(n) ==
    [p \in 1..n |-> {OtherRef} \cup {GoRef(g) : g \in 1..(p % (MaxGo + 1))}]

Init ==
    /\ N \in 0..MaxN
    /\ swissprot = Database(N)
    /\ InitCommon

\* ----------------------------------------------------------- lines 52-58
\* ExPASy.get_sprot_raw(protein) returns a handle
GetSprotRaw ==
    /\ pc = "fetch" /\ i <= N /\ handle = 0
    /\ handle' = i
    /\ fetchLog' = Append(fetchLog, <<"get", i>>)
    /\ UNCHANGED <<N, swissprot, pc, err, i, failed, record_protein_gos>>
    /\ UNCHANGED <<clusterVars, aggVars, specificVars, plotVars>>

\* ExPASy.get_sprot_raw(protein) raises (unknown accession, network error)
LookupFails ==
    /\ pc = "fetch" /\ i <= N /\ handle = 0
    /\ fetchLog' = Append(fetchLog, <<"get", i>>)
    /\ failed' = failed \cup {i}
    /\ pc' = "error" /\ err' = "lookup"
    /\ UNCHANGED <<N, swissprot, i, handle, record_protein_gos>>
    /\ UNCHANGED <<clusterVars, aggVars, specificVars, plotVars>>

\* SwissProt.read(handle); record_protein_gos[protein] = set(GO x_refs)
ReadRecord ==
    /\ pc = "fetch" /\ handle # 0
    /\ fetchLog' = Append(fetchLog, <<"read", handle>>)
    /\ record_protein_gos' =
            (handle :> GoCrossReferences(swissprot[handle])) @@ record_protein_gos
    /\ handle' = 0
    /\ i' = i + 1
    /\ UNCHANGED <<N, swissprot, pc, err, failed>>
    /\ UNCHANGED <<clusterVars, aggVars, specificVars, plotVars>>

\* mutant: the parse error is swallowed and an empty record stands in
ParseFails_Swallowed ==
    /\ pc = "fetch" /\ handle # 0
    /\ failed' = failed \cup {handle}
    /\ record_protein_gos' = (handle :> {}) @@ record_protein_gos
    /\ handle' = 0
    /\ i' = i + 1
    /\ UNCHANGED <<N, swissprot, pc, err, fetchLog>>
    /\ UNCHANGED <<clusterVars, aggVars, specificVars, plotVars>>

\* SwissProt.read(handle) raises (malformed record)
ParseFails ==
    /\ pc = "fetch" /\ handle # 0
    /\ failed' = failed \cup {handle}
    /\ pc' = "error" /\ err' = "parse"
    /\ UNCHANGED <<N, swissprot, i, handle, fetchLog, record_protein_gos>>
    /\ UNCHANGED <<clusterVars, aggVars, specificVars, plotVars>>

\* mutant: the correlation starts one column early
Correlate_OneEarly ==
    /\ pc = "fetch" /\ i >= N /\ handle = 0
    /\ scores' = <<>>
    /\ correlations' = N
    /\ j' = 1
    /\ pc' = "fit"
    /\ UNCHANGED <<N, swissprot, err, ac, best_n_clusters>>
    /\ UNCHANGED <<fetchVars, aggVars, specificVars, plotVars>>

\* ----------------------------------------------------------- lines 60-63
Correlate ==
    /\ pc = "fetch" /\ i > N
    /\ scores' = <<>>
    /\ correlations' = N
    /\ j' = 1
    /\ pc' = "fit"
    /\ UNCHANGED <<N, swissprot, err, ac, best_n_clusters>>
    /\ UNCHANGED <<fetchVars, aggVars, specificVars, plotVars>>

\* ----------------------------------------------------------- lines 64-68
\* ac.fit raises: more clusters asked for than there are rows
FitRaises ==
    /\ pc = "fit" /\ correlations < tentative_clusters[j]
    /\ pc' = "error" /\ err' = "fit"
    /\ UNCHANGED <<N, swissprot, clusterVars>>
    /\ UNCHANGED <<fetchVars, aggVars, specificVars, plotVars>>

Fit ==
    /\ pc = "fit" /\ correlations >= tentative_clusters[j]
    /\ ac' \in ACLabels(correlations, tentative_clusters[j])
    /\ pc' = "score"
    /\ UNCHANGED <<N, swissprot, err, correlations, scores, j, best_n_clusters>>
    /\ UNCHANGED <<fetchVars, aggVars, specificVars, plotVars>>

\* davies_bouldin_score's check_number_of_labels: 1 < n_labels < n_samples
ValidNumberOfLabels(n_labels, n_samples) == 1 < n_labels /\ n_labels < n_samples

ScoreRaises ==
    /\ pc = "score" /\ ~ValidNumberOfLabels(NLabels(ac), correlations)
    /\ pc' = "error" /\ err' = "score"
    /\ UNCHANGED <<N, swissprot, clusterVars>>
    /\ UNCHANGED <<fetchVars, aggVars, specificVars, plotVars>>

Score ==
    /\ pc = "score" /\ ValidNumberOfLabels(NLabels(ac), correlations)
    /\ \E score \in 0..MaxScore : scores' = Append(scores, score)
    /\ j' = j + 1
    /\ pc' = IF j = Len(tentative_clusters) THEN "select" ELSE "fit"
    /\ UNCHANGED <<N, swissprot, err, correlations, ac, best_n_clusters>>
    /\ UNCHANGED <<fetchVars, aggVars, specificVars, plotVars>>

\* ----------------------------------------------------------- lines 70-72
Select ==
    /\ pc = "select"
    /\ best_n_clusters' = BestNClusters(scores)
    /\ pc' = "refit"
    /\ UNCHANGED <<N, swissprot, err, correlations, scores, j, ac>>
    /\ UNCHANGED <<fetchVars, aggVars, specificVars, plotVars>>

Refit ==
    /\ pc = "refit"
    /\ ac' \in ACLabels(correlations, best_n_clusters)
    /\ pc' = "aggregate"
    /\ UNCHANGED <<N, swissprot, err, correlations, scores, j, best_n_clusters>>
    /\ UNCHANGED <<fetchVars, aggVars, specificVars, plotVars>>

\* ----------------------------------------------------------- lines 74-84
Aggregate ==
    /\ pc = "aggregate"
    /\ LET labels == Unique(ac)
           pgos == [p \in 1..N |-> ProteinGos(record_protein_gos[p])]
           cps == [c \in Range(labels) |-> ClusterMembers(Proteins(N), ac, c)]
       IN  /\ cluster_labels' = labels
           /\ protein_gos' = pgos
           /\ cluster_proteins' = cps
           /\ cluster_gos' = [c \in Range(labels) |-> UnionOver({}, cps[c], pgos)]
    /\ pc' = "overview"
    /\ UNCHANGED <<N, swissprot, err>>
    /\ UNCHANGED <<fetchVars, clusterVars, specificVars, plotVars>>

\* ---------------------------------------------------------- lines 86-102
RenderOverview ==
    /\ pc = "overview"
    /\ figures' = figures + 1
    /\ pc' = "specific"
    /\ UNCHANGED <<N, swissprot, err, hist>>
    /\ UNCHANGED <<fetchVars, clusterVars, aggVars, specificVars>>

\* --------------------------------------------------------- lines 109-117
ClusterSpecificGos ==
    /\ pc = "specific"
    /\ cluster_specific_gos' =
            [c \in Range(cluster_labels) |->
                ClusterSpecific(c, cluster_labels, cluster_proteins, protein_gos)]
    /\ pc' = "protein_specific"
    /\ UNCHANGED <<N, swissprot, err, cluster_specific_protein_gos>>
    /\ UNCHANGED <<fetchVars, clusterVars, aggVars, plotVars>>

\* --------------------------------------------------------- lines 120-124
ClusterSpecificProteinGos ==
    /\ pc = "protein_specific"
    /\ cluster_specific_protein_gos' =
            [c \in Range(cluster_labels) |->
                [p \in Range(cluster_proteins[c]) |->
                    ProteinSpecific(cluster_specific_gos[c], protein_gos[p])]]
    /\ pc' = "histograms"
    /\ UNCHANGED <<N, swissprot, err, cluster_specific_gos>>
    /\ UNCHANGED <<fetchVars, clusterVars, aggVars, plotVars>>

\* --------------------------------------------------------- lines 126-145
\* axs has best_n_clusters subplots; axs[cluster] raises when out of range.
\* Column `cluster` of the data frame, NaN rows dropped, len applied.
CountColumn(cspg, cluster) ==
    [p \in DOMAIN cspg[cluster] |-> Cardinality(cspg[cluster][p])]

RenderHistograms ==
    /\ pc = "histograms"
    /\ IF \A c \in Range(cluster_labels) : c < best_n_clusters
       THEN /\ hist' = [c \in Range(cluster_labels) |->
                            CountColumn(cluster_specific_protein_gos, c)]
            /\ figures' = figures + 1
            /\ pc' = "done" /\ err' = err
       ELSE /\ pc' = "error" /\ err' = "render"
            /\ UNCHANGED plotVars
    /\ UNCHANGED <<N, swissprot>>
    /\ UNCHANGED <<fetchVars, clusterVars, aggVars, specificVars>>

\* ------------------------------------------------------------------- Next
Next ==
    \/ GetSprotRaw \/ LookupFails \/ ReadRecord \/ ParseFails
    \/ Correlate
    \/ FitRaises \/ Fit \/ ScoreRaises \/ Score
    \/ Select \/ Refit
    \/ Aggregate \/ RenderOverview
    \/ ClusterSpecificGos \/ ClusterSpecificProteinGos \/ RenderHistograms

Spec == Init /\ [][Next]_vars

\* --------------------------------------------------------------- SpecAgg
\* Lines 74-145 as a function of the clustering and of the GO records:
\* every labelling of AggN proteins with 2..AggN non-empty clusters, every
\* assignment of GO cross-references to the proteins.
InitAgg ==
    /\ N = AggN
    /\ swissprot \in [1..N -> {{OtherRef} \cup G : G \in SUBSET GoRefs}]
    /\ record_protein_gos = [p \in 1..N |-> GoCrossReferences(swissprot[p])]
    /\ \E k \in 2..(IF N < max_n_clusters THEN N ELSE max_n_clusters) :
            /\ best_n_clusters = k
            /\ ac \in AllLabels(N, k)
            /\ scores = [t \in 1..Len(tentative_clusters) |->
                            IF tentative_clusters[t] = k THEN 0 ELSE 1]
    /\ pc = "aggregate" /\ err = "none"
    /\ i = N + 1 /\ handle = 0 /\ failed = {}
    /\ fetchLog = [e \in 1..(2 * N) |->
                      IF e % 2 = 1 THEN <<"get", (e + 1) \div 2>>
                                   ELSE <<"read", e \div 2>>]
    /\ correlations = N /\ j = Len(tentative_clusters) + 1
    /\ cluster_labels = <<>> /\ cluster_proteins = Empty
    /\ protein_gos = Empty /\ cluster_gos = Empty
    /\ cluster_specific_gos = Empty /\ cluster_specific_protein_gos = Empty
    /\ hist = Empty /\ figures = 0

NextAgg ==
    \/ Aggregate \/ RenderOverview
    \/ ClusterSpecificGos \/ ClusterSpecificProteinGos \/ RenderHistograms

SpecAgg == InitAgg /\ [][NextAgg]_vars

\* ================================================================ claims
AfterSelect ==
    pc \in {"refit", "aggregate", "overview", "specific", "protein_specific",
            "histograms", "done"}
AfterAggregate ==
    pc \in {"overview", "specific", "protein_specific", "histograms", "done"}
AfterSpecific == pc \in {"protein_specific", "histograms", "done"}
AfterProteinSpecific == pc \in {"histograms", "done"}

Clusters == Range(cluster_labels)
MembersOf(c) == Range(cluster_proteins[c])
GosOf(members) == UNION {protein_gos[p] : p \in members}

\* C1: for every table with N >= 2 columns the call selects a cluster count
\* k in 2..6, the candidate of minimal Davies-Bouldin score, the smallest
\* such candidate on a tie (so the candidate loop raises for no such table).
C1_SelectsMinimalK ==
    (N >= 2 /\ correlations # -1) =>
        /\ ~(pc = "error" /\ err \in {"fit", "score"})
        /\ AfterSelect =>
            /\ best_n_clusters \in 2..6
            /\ \E t \in 1..Len(scores) :
                /\ tentative_clusters[t] = best_n_clusters
                /\ \A u \in 1..Len(scores) : scores[t] <= scores[u]
                /\ \A u \in 1..(t - 1) : scores[u] > scores[t]

\* C2: the cluster-specific set of cluster c, computed by subtracting the GO
\* set of each protein of every other cluster in turn, is the union of c's
\* members' GO terms minus the union of all other clusters' GO terms; a term
\* of two or more clusters' unions is in no cluster-specific set.
C2_SpecificIsStrictDifference ==
    AfterSpecific =>
        /\ \A c \in Clusters :
            /\ cluster_gos[c] = GosOf(MembersOf(c))
            /\ cluster_specific_gos[c] =
                    cluster_gos[c] \ UNION {cluster_gos[d] : d \in Clusters \ {c}}
        /\ \A c, d \in Clusters :
                c # d => \A e \in Clusters :
                            cluster_specific_gos[e] \cap cluster_gos[c] \cap cluster_gos[d] = {}

C2_Witness ==
    /\ pc = "done"
    /\ \E c \in Clusters :
        /\ cluster_specific_gos[c] # {}
        /\ cluster_specific_gos[c] # cluster_gos[c]
        /\ \E d \in Clusters \ {c} : Len(cluster_proteins[d]) >= 2

\* C3: the cluster-specific GO sets of two distinct clusters share no term.
C3_SpecificPairwiseDisjoint ==
    AfterSpecific =>
        \A c, d \in Clusters :
            c # d => cluster_specific_gos[c] \cap cluster_specific_gos[d] = {}

C3_Witness ==
    /\ pc = "done"
    /\ \E c, d \in Clusters :
        /\ c # d
        /\ cluster_gos[c] \cap cluster_gos[d] # {}
        /\ cluster_specific_gos[c] # {}
        /\ protein_gos[cluster_proteins[d][Len(cluster_proteins[d])]] # {}
        /\ Len(cluster_proteins[d]) >= 2

\* C4: the set kept for protein p of cluster c is the intersection of c's
\* cluster-specific set with p's own GO terms, so the number plotted for p is
\* at most the size of c's cluster-specific set and of p's own GO set.
C4_CountBoundedBySpecific ==
    /\ AfterProteinSpecific =>
        \A c \in Clusters : \A p \in MembersOf(c) :
            /\ cluster_specific_protein_gos[c][p] =
                    cluster_specific_gos[c] \cap protein_gos[p]
            /\ Cardinality(cluster_specific_protein_gos[c][p])
                    <= Cardinality(cluster_specific_gos[c])
    /\ pc = "done" =>
        \A c \in Clusters : \A p \in MembersOf(c) :
            /\ hist[c][p] <= Cardinality(cluster_specific_gos[c])
            /\ hist[c][p] <= Cardinality(protein_gos[p])

C4_Witness ==
    /\ pc = "done"
    /\ \E c \in Clusters : \E p \in MembersOf(c) :
        /\ 0 < hist[c][p]
        /\ hist[c][p] < Cardinality(protein_gos[p])

\* C5: a protein with no GO cross-reference adds nothing to its cluster's
\* union, every cluster's union and cluster-specific set are what they are
\* without it, and the number plotted for it is 0 in whichever cluster.
C5_EmptyGoContributesNothing ==
    \A p \in DOMAIN record_protein_gos :
        record_protein_gos[p] = {} =>
            /\ AfterAggregate =>
                /\ protein_gos[p] = {}
                /\ \A c \in Clusters : cluster_gos[c] = GosOf(MembersOf(c) \ {p})
            /\ AfterSpecific =>
                \A c \in Clusters :
                    cluster_specific_gos[c] =
                        GosOf(MembersOf(c) \ {p})
                            \ UNION {GosOf(MembersOf(d) \ {p}) : d \in Clusters \ {c}}
            /\ AfterProteinSpecific => cluster_specific_protein_gos[ac[p]][p] = {}
            /\ pc = "done" => hist[ac[p]][p] = 0

C5_Witness ==
    /\ pc = "done"
    /\ \E p \in 1..N :
        /\ record_protein_gos[p] = {}
        /\ cluster_specific_gos[ac[p]] # {}
        /\ \E c \in Clusters \ {ac[p]} : cluster_specific_gos[c] # {}
        /\ hist[ac[p]][p] = 0

\* C6: on a table with 5 protein columns the call scores the candidates,
\* selects k and refits without raising.
C6_FiveColumnsNoError ==
    N = 5 => ~(pc = "error" /\ err \in {"fit", "score", "render"})

\* C7: a lookup or parse failure for one identifier ends the call: no later
\* identifier is fetched, nothing is correlated, clustered or drawn, and the
\* failed identifier has no annotation record.
C7_FetchFailureIsFatal ==
    failed # {} =>
        /\ pc = "error" /\ err \in {"lookup", "parse"}
        /\ \E f \in 1..N :
            /\ failed = {f}
            /\ DOMAIN record_protein_gos = 1..(f - 1)
            /\ \A e \in 1..Len(fetchLog) : fetchLog[e][2] <= f
        /\ correlations = -1 /\ scores = <<>> /\ ac = <<>> /\ best_n_clusters = 0
        /\ cluster_labels = <<>> /\ cluster_gos = Empty
        /\ cluster_specific_gos = Empty
        /\ hist = Empty /\ figures = 0

C7_Witness ==
    /\ pc = "error" /\ err = "parse"
    /\ \E f \in failed : 1 < f /\ f < N

\* C9: the lookups run one at a time, once per column, in column order, each
\* after the previous record was read; all of them are over before the
\* correlation, and no later stage makes another.
FetchEvent(e) ==
    IF e % 2 = 1 THEN <<"get", (e + 1) \div 2>> ELSE <<"read", e \div 2>>

C9_FetchesSequentialOnce ==
    /\ Len(fetchLog) <= 2 * N
    /\ \A e \in 1..Len(fetchLog) : fetchLog[e] = FetchEvent(e)
    /\ (correlations # -1 \/ pc \notin {"fetch", "error"}) => Len(fetchLog) = 2 * N

C9_Witness ==
    /\ pc = "done" /\ figures = 2
    /\ N >= 2 /\ Len(fetchLog) = 2 * N

\* C10: in every completed run the final labels are exactly 0..k-1 for the
\* selected k, every label has a member, every protein is in exactly one
\* cluster, so every subplot index is in range and every protein is counted
\* in exactly one histogram.
C10_LabelsPartitionProteins ==
    /\ ~(pc = "error" /\ err = "render")
    /\ AfterAggregate =>
        /\ cluster_labels = [t \in 1..best_n_clusters |-> t - 1]
        /\ \A c \in Clusters : cluster_proteins[c] # <<>>
        /\ \A p \in 1..N : Cardinality({c \in Clusters : p \in MembersOf(c)}) = 1
    /\ pc = "done" =>
        /\ DOMAIN hist = 0..(best_n_clusters - 1)
        /\ \A p \in 1..N : Cardinality({c \in DOMAIN hist : p \in DOMAIN hist[c]}) = 1

C10_Witness ==
    /\ pc = "done"
    /\ best_n_clusters = 3
    /\ ac[1] # 0
    /\ \E c \in Clusters : Len(cluster_proteins[c]) >= 3

====
